---- MODULE Spec2Model ----
(***************************************************************************)
(* Batch annotation and controlled-variant-generation pipeline.            *)
(*                                                                         *)
(* Texts are sequences of one-character strings.  The literals the code    *)
(* compares against are spelled with two abstract characters each, so that *)
(* a character can stand between the two halves of a literal:              *)
(*   "# Reasoning:" = <<"#","R">>      "# Answer:" = <<"#","A">>           *)
(*   "Secure"       = <<"S","e">>      "Insecure"  = <<"I","e">>           *)
(* Whitespace is the blank, the line feed and the carriage return.         *)
(***************************************************************************)
EXTENDS Integers, Sequences, FiniteSets, TLC

VARIABLES
    flow,        \* dispatch spec: "full_patch" or "variant"
    data,        \* the input list (json.load of the input file)
    main,        \* position of the run: "running" until the output list is returned
    results,     \* the output list once returned (patched_results / results)
    task,        \* full patch: position of each process_item coroutine
    attempt,     \* full patch: attempts the retrying invoker has made for each item
    lastcause,   \* full patch: cause of the last failed attempt of each call in retry
    raised,      \* full patch: the error the retrying invoker raised for each item
    slot,        \* full patch: what process_item returned for each item
    finished,    \* full patch: the positions in the order their coroutines finished
    idx,         \* variant: 0-based position of the loop of process_entries
    vulns,       \* variant: the descriptors being iterated for the current item
    vk,          \* variant: how many of them have been handled
    partial,     \* variant: the results list while the loop runs
    status,      \* variant: how each item ended ("pending" until it has)
    vlog,        \* variant: the outcomes of the current item's own completion calls
    lastsent,    \* HTTP requests sent by the latest invocation of the completion client
    calls,       \* full patch: for each item, how its own completion call ended
    raw,        \* text spec: the raw completion text handed to a runner or function
    ar,         \* text spec: the AnalysisResult raw was serialized from, or NoResult
    op,         \* text spec: the function applied to raw ("none" before it is applied)
    out,        \* text spec: what the applied function returned / recorded
    agg,             \* reduce spec: "ratio", "coverage" or "faithfulness"
    chunk,           \* aggregators: the number i of the chunk file the loop is at
    num,             \* ratio: the counter num
    a,               \* ratio: the counter a
    all_indices,     \* coverage: the set all_indices
    index_has_secure,\* coverage: the map index_has_secure
    merged,          \* coverage: the (index, verdict) pairs merged so far
    last,            \* coverage: the pair merged last, and if it had been merged before
    counted,         \* ratio: the items and the Insecure items of the files read so far
    stats,           \* aggregators: the returned {"num", "a", "pct"}, NoStats before
    code_items,      \* faithfulness: the list of the variant code file
    answer_items,    \* faithfulness: the list of the second-pass answer file
    groups,          \* faithfulness: what build_groups returned, NoGroups before
    faithful,        \* faithfulness: what process_group returned for each index
    code_files,      \* index injection: the arrays of the code chunk files that exist
    ans_files        \* index injection: the arrays of the answer chunk files that exist

textVars == <<raw, ar, op, out>>
dispatchVars ==
    <<flow, data, main, results, task, attempt, lastcause, raised, slot, finished,
      idx, vulns, vk, partial, status, vlog, lastsent, calls>>
reduceVars ==
    <<agg, chunk, num, a, all_indices, index_has_secure, merged, last, counted,
      stats, code_items, answer_items, groups, faithful, code_files, ans_files>>
vars == <<dispatchVars, textVars, reduceVars>>

(***************************************************************************)
(* Characters and literals                                                 *)
(***************************************************************************)
NL == "\n"
CR == "\r"
SP == " "

ReasoningHeader == <<"#", "R">>
AnswerHeader == <<"#", "A">>
Secure == <<"S", "e">>
Insecure == <<"I", "e">>
NoReasoningFound == <<"N">>

IsSpace(c) == c \in {SP, NL, CR}

SetMin(S) == CHOOSE x \in S : \A y \in S : x <= y
SetMax(S) == CHOOSE x \in S : \A y \in S : x >= y

(***************************************************************************)
(* Python string primitives, with Python's 0-based positions               *)
(***************************************************************************)
\* s[:n]
Take(s, n) == SubSeq(s, 1, IF n < Len(s) THEN n ELSE Len(s))

\* s[n:]
Drop(s, n) == SubSeq(s, n + 1, Len(s))

\* s.strip()
Strip(s) ==
    LET ns == {i \in 1..Len(s) : ~IsSpace(s[i])}
    IN  IF ns = {} THEN <<>> ELSE SubSeq(s, SetMin(ns), SetMax(ns))

\* s.rstrip()
RStrip(s) ==
    LET ns == {i \in 1..Len(s) : ~IsSpace(s[i])}
    IN  IF ns = {} THEN <<>> ELSE SubSeq(s, 1, SetMax(ns))

\* s.find(pat): the first 0-based position of pat in s, or -1
Find(s, pat) ==
    LET hits == {i \in 0..(Len(s) - Len(pat)) : SubSeq(s, i + 1, i + Len(pat)) = pat}
    IN  IF hits = {} THEN -1 ELSE SetMin(hits)

\* pat in s
Contains(s, pat) == Find(s, pat) # -1

\* s.startswith(pat)
StartsWith(s, pat) == Len(s) >= Len(pat) /\ SubSeq(s, 1, Len(pat)) = pat

\* s.endswith(pat)
EndsWith(s, pat) == Len(s) >= Len(pat) /\ SubSeq(s, Len(s) - Len(pat) + 1, Len(s)) = pat

\* s.replace("\r", "")
RECURSIVE RemoveCR(_)
RemoveCR(s) ==
    IF s = <<>> THEN <<>>
    ELSE IF Head(s) = CR THEN RemoveCR(Tail(s))
    ELSE <<Head(s)>> \o RemoveCR(Tail(s))

\* s.split("\n"): always at least one piece
RECURSIVE SplitNL(_)
SplitNL(s) ==
    LET i == Find(s, <<NL>>)
    IN  IF i = -1 THEN <<s>> ELSE <<Take(s, i)>> \o SplitNL(Drop(s, i + 1))

\* s.splitlines(): breaks at "\n", "\r" and "\r\n"; no piece for a final break
RECURSIVE SplitLines(_)
SplitLines(s) ==
    IF s = <<>> THEN <<>>
    ELSE LET brk == {i \in 1..Len(s) : s[i] \in {NL, CR}}
         IN  IF brk = {} THEN <<s>>
             ELSE LET p == SetMin(brk)
                      w == IF s[p] = CR /\ p < Len(s) /\ s[p + 1] = NL THEN 2 ELSE 1
                  IN  <<SubSeq(s, 1, p - 1)>> \o SplitLines(Drop(s, p + w - 1))

\* re.split(r'[\n\r]+', s): breaks at every maximal run of "\n" and "\r"
RECURSIVE ReSplitNLCR(_)
ReSplitNLCR(s) ==
    LET brk == {i \in 1..Len(s) : s[i] \in {NL, CR}}
    IN  IF brk = {} THEN <<s>>
        ELSE LET p == SetMin(brk)
                 after == {i \in (p + 1)..Len(s) : s[i] \notin {NL, CR}}
                 q == IF after = {} THEN Len(s) + 1 ELSE SetMin(after)
             IN  <<SubSeq(s, 1, p - 1)>> \o ReSplitNLCR(Drop(s, q - 1))

\* sep.join(lines)
RECURSIVE Join(_, _)
Join(lines, sep) ==
    IF lines = <<>> THEN <<>>
    ELSE IF Len(lines) = 1 THEN lines[1]
    ELSE lines[1] \o sep \o Join(Tail(lines), sep)

\* [x for x in seq if keep], for texts: the non-blank pieces, each stripped
RECURSIVE StrippedNonBlank(_)
StrippedNonBlank(lines) ==
    IF lines = <<>> THEN <<>>
    ELSE IF Strip(Head(lines)) = <<>> THEN StrippedNonBlank(Tail(lines))
    ELSE <<Strip(Head(lines))>> \o StrippedNonBlank(Tail(lines))

\* the decimal numeral of i, for the bullet numbers the pipeline writes
Numeral(i) == << <<"1", "2", "3", "4", "5", "6", "7", "8", "9">>[i] >>

(***************************************************************************)
(* Response contract parser (analysis runners)                             *)
(***************************************************************************)
\* the loop "for i, ln in enumerate(tail_lines): if ln.strip() == '# Answer:': ... break";
\* -1 stands for None
FirstAnswerLine(lines) ==
    LET hits == {i \in 1..Len(lines) : Strip(lines[i]) = AnswerHeader}
    IN  IF hits = {} THEN -1 ELSE SetMin(hits) - 1

validate_and_trim_strict(text) ==
    IF text = <<>> THEN <<>>
    ELSE
    LET t0 == Strip(text)
        idx_r == Find(t0, ReasoningHeader)
    IN  IF ~StartsWith(t0, ReasoningHeader) /\ idx_r = -1 THEN <<>>
        ELSE
        LET t == IF StartsWith(t0, ReasoningHeader) THEN t0 ELSE Strip(Drop(t0, idx_r))
            idx_ans == Find(t, AnswerHeader)
        IN  IF idx_ans = -1 THEN <<>>
            ELSE
            LET head == RStrip(Take(t, idx_ans))
                tail_lines == SplitLines(Drop(t, idx_ans))
                ans_idx == FirstAnswerLine(tail_lines)
            IN  IF ans_idx = -1 \/ ans_idx = Len(tail_lines) - 1 THEN <<>>
                ELSE
                LET final_word == Strip(tail_lines[ans_idx + 2])
                    answer_header == Join(Take(tail_lines, ans_idx + 1), <<NL>>)
                IN  IF final_word \notin {Secure, Insecure} THEN <<>>
                    ELSE head \o <<NL>> \o answer_header \o <<NL>> \o final_word

MaxBullets == 5

\* the bullet lines f"{i+1}. {b}"
NumberedLines(bullets) ==
    [i \in 1..Len(bullets) |-> Numeral(i) \o <<".", SP>> \o bullets[i]]

\* the coercion with a fail-open default verdict
coerce_fail_open(raw_text) ==
    LET found == StrippedNonBlank(ReSplitNLCR(raw_text))
        lines == IF found = <<>> THEN <<NoReasoningFound>> ELSE found
        bullets == Take(lines, MaxBullets)
        reasoning == Join(NumberedLines(bullets), <<NL>>)
    IN  ReasoningHeader \o <<NL>> \o reasoning \o <<NL, NL>>
            \o AnswerHeader \o <<NL>> \o Secure

coerce_to_template(raw_text) ==
    LET found == StrippedNonBlank(ReSplitNLCR(raw_text))
        lines == IF found = <<>> THEN <<NoReasoningFound>> ELSE found
        bullets == Take(lines, MaxBullets)
        reasoning == Join(NumberedLines(bullets), <<NL>>)
    IN  ReasoningHeader \o <<NL>> \o reasoning \o <<NL, NL>>
            \o AnswerHeader \o <<NL>> \o Insecure

\* the answer run_with_vllm_direct records for one output text
run_with_vllm_direct(text) ==
    LET trimmed == validate_and_trim_strict(text)
    IN  IF trimmed = <<>> THEN coerce_to_template(text) ELSE trimmed

\* the answer run_with_server records for one completion text
run_with_server(text) == validate_and_trim_strict(text)

(***************************************************************************)
(* Code block extractors                                                   *)
(***************************************************************************)
\* the code fence (three backticks) is one character
Fence == "f"

\* re.search of fence, c, lazy group, fence, with DOTALL | IGNORECASE: group(1), or NoMatch
NoMatch == <<"no match">>
FencedGroup(text) ==
    LET starts == {i \in 1..(Len(text) - 2) :
                     /\ text[i] = Fence
                     /\ text[i + 1] \in {"c", "C"}
                     /\ \E j \in (i + 2)..Len(text) : text[j] = Fence}
    IN  IF starts = {} THEN NoMatch
        ELSE LET i == SetMin(starts)
                 j == SetMin({j \in (i + 2)..Len(text) : text[j] = Fence})
             IN  SubSeq(text, i + 2, j - 1)

\* re.search of fence, c, \s*, newline, lazy group, newline, fence, with DOTALL |
\* IGNORECASE: group(1), or NoMatch. The greedy \s* ends at the last newline q from which
\* the rest can match; the lazy group ends at the first e followed by newline and fence.
StrictGroup(text) ==
    LET ends(q) == {e \in q..(Len(text) - 2) : text[e + 1] = NL /\ text[e + 2] = Fence}
        opens(i) == {q \in (i + 2)..Len(text) :
                       /\ text[q] = NL
                       /\ \A k \in (i + 2)..(q - 1) : IsSpace(text[k])
                       /\ ends(q) # {}}
        starts == {i \in 1..(Len(text) - 1) :
                     text[i] = Fence /\ text[i + 1] \in {"c", "C"} /\ opens(i) # {}}
    IN  IF starts = {} THEN NoMatch
        ELSE LET q == SetMax(opens(SetMin(starts)))
             IN  SubSeq(text, q + 1, SetMin(ends(q)))

\* extract_code_from_input of the analysis runners; NoMatch stands for None
extract_code_from_input(input_field) ==
    LET text == Strip(input_field)
        strict == StrictGroup(text)
        lenient == FencedGroup(text)
    IN  IF strict # NoMatch /\ Strip(strict) # <<>> THEN Strip(strict)
        ELSE IF lenient # NoMatch /\ Strip(lenient) # <<>> THEN Strip(lenient)
        ELSE IF text # <<>> THEN text
        ELSE NoMatch

(***************************************************************************)
(* Verdict extraction (aggregators)                                        *)
(***************************************************************************)
\* [ln.replace("\r", "") for ln in answer_text.split("\n")]
LinesWithoutCR(answer_text) ==
    LET pieces == SplitNL(answer_text)
    IN  [i \in 1..Len(pieces) |-> RemoveCR(pieces[i])]

\* the loop "for i, ln in enumerate(lines): if ln.strip() == '# Answer:': last_idx = i",
\* entered with i = 0 and last_idx = -1
RECURSIVE LastAnswerLine(_, _, _)
LastAnswerLine(lines, i, last_idx) ==
    IF i >= Len(lines) THEN last_idx
    ELSE LastAnswerLine(lines, i + 1,
                        IF Strip(lines[i + 1]) = AnswerHeader THEN i ELSE last_idx)

parse_final_answer(answer_text) ==
    LET lines == LinesWithoutCR(answer_text)
        last_idx == LastAnswerLine(lines, 0, -1)
    IN  IF last_idx < 0 \/ last_idx + 1 >= Len(lines) THEN <<>>
        ELSE Strip(lines[last_idx + 2])

\* the same loop in the coverage aggregator, stopping at the first header
RECURSIVE SecureFirstIdx(_, _, _)
SecureFirstIdx(lines, i, last_idx) ==
    IF i >= Len(lines) \/ last_idx >= 0 THEN last_idx
    ELSE SecureFirstIdx(lines, i + 1,
                        IF Strip(lines[i + 1]) = AnswerHeader THEN i ELSE last_idx)

RECURSIVE SecureLastIdx(_, _, _)
SecureLastIdx(lines, i, last_idx) ==
    IF i >= Len(lines) THEN last_idx
    ELSE SecureLastIdx(lines, i + 1,
                       IF Strip(lines[i + 1]) = AnswerHeader THEN i ELSE last_idx)

is_secure_answer(answer_text) ==
    LET lines == LinesWithoutCR(answer_text)
        last_idx == SecureLastIdx(lines, 0, -1)
    IN  IF last_idx < 0 \/ last_idx + 1 >= Len(lines) THEN FALSE
        ELSE Strip(lines[last_idx + 2]) = Secure

\* the gate of the patchers: insecure_marker in answer_text
insecure_marker == AnswerHeader \o <<NL>> \o Insecure

(***************************************************************************)
(* Text specification: one raw text, one function applied to it            *)
(***************************************************************************)
MaxLines == 4
MaxEntries == 2
MaxTrailing == 2
MaxTokens == 5

NoResult == [reasoning |-> <<>>, verdict |-> <<>>]

\* the lines raw completion texts are made of
LineVocab ==
    { ReasoningHeader,
      AnswerHeader,
      <<SP>> \o AnswerHeader \o <<SP, CR>>,
      Secure,
      Insecure,
      <<"S", CR, "e">>,
      <<"x">> \o AnswerHeader \o <<"x">>,
      <<>> }

RawTexts ==
    { Join(ls, <<NL>>) : ls \in UNION { [1..n -> LineVocab] : n \in 0..MaxLines } }

\* the "input" fields of the rows the analysis runners read: code with and without
\* fences
PromptTokens == { <<Fence, "c">>, <<Fence>>, <<NL>>, <<"p">> }

PromptTexts ==
    { Join(ts, <<>>) : ts \in UNION { [1..n -> PromptTokens] : n \in 0..MaxTokens } }

\* the reasoning entries of well-formed analysis results
EntryVocab ==
    { <<"x">>,
      <<"x", SP, "y">>,
      <<"x", SP>> \o AnswerHeader \o <<SP, "y">> }

AnalysisResults ==
    { [reasoning |-> es, verdict |-> v] :
        es \in UNION { [1..n -> EntryVocab] : n \in 1..MaxEntries },
        v \in {Secure, Insecure} }

\* the response text protocol: header, numbered entries, header, verdict
Serialize(result) ==
    ReasoningHeader \o <<NL>> \o Join(NumberedLines(result.reasoning), <<NL>>)
        \o <<NL>> \o AnswerHeader \o <<NL>> \o result.verdict

\* completion texts that go on after a well-formed answer: the protocol text of a
\* one-entry result, then further lines
ContinuedTexts ==
    { Serialize([reasoning |-> << <<"x">> >>, verdict |-> v]) \o <<NL>> \o Join(ls, <<NL>>) :
        v \in {Secure, Insecure},
        ls \in UNION { [1..n -> LineVocab] : n \in 1..MaxTrailing } }

\* the dispatch variables, at rest while the text functions are exercised
DispatchIdle ==
    /\ flow = "none"
    /\ data = <<>>
    /\ main = "done"
    /\ results = <<>>
    /\ task = <<>>
    /\ attempt = <<>>
    /\ lastcause = <<>>
    /\ raised = <<>>
    /\ slot = <<>>
    /\ finished = <<>>
    /\ idx = 0
    /\ vulns = <<>>
    /\ vk = 0
    /\ partial = <<>>
    /\ status = <<>>
    /\ vlog = <<>>
    /\ lastsent = 0
    /\ calls = <<>>

\* an item without an "index" key
NoIndex == -1

\* an element of a verdict file: an object with its index and answer, or no object
VerdictRecord(i, t) == [isdict |-> TRUE, index |-> i, answer |-> t]
NotAnObject == [isdict |-> FALSE, index |-> NoIndex, answer |-> <<>>]

\* pct, exactly: the fraction n / d
Fraction(n, d) == [n |-> n, d |-> d]

\* no record merged yet
NoMerge == [index |-> NoIndex, secure |-> FALSE, again |-> FALSE]

\* build_groups has not run yet
NoGroups == [built |-> FALSE, of |-> <<>>]

\* no statistics returned yet
NoStats == [num |-> -1, a |-> -1, pct |-> Fraction(0, 1)]

\* the reduce variables, at rest while another specification runs
ReduceIdle ==
    /\ agg = "none"
    /\ chunk = 0
    /\ num = 0
    /\ a = 0
    /\ all_indices = {}
    /\ index_has_secure = <<>>
    /\ merged = {}
    /\ last = NoMerge
    /\ counted = [total |-> 0, insecure |-> 0]
    /\ stats = NoStats
    /\ code_items = <<>>
    /\ answer_items = <<>>
    /\ groups = NoGroups
    /\ faithful = <<>>
    /\ code_files = <<>>
    /\ ans_files = <<>>

TextInit ==
    /\ DispatchIdle
    /\ ReduceIdle
    /\ op = "none"
    /\ out = <<>>
    /\ \/ ar = NoResult /\ raw \in RawTexts \cup ContinuedTexts \cup PromptTexts
       \/ ar \in AnalysisResults /\ raw = Serialize(ar)

Apply(name, value) ==
    /\ op = "none"
    /\ op' = name
    /\ out' = value
    /\ UNCHANGED <<raw, ar, dispatchVars, reduceVars>>

RunWithVllmDirect == Apply("run_with_vllm_direct", run_with_vllm_direct(raw))
RunWithServer == Apply("run_with_server", run_with_server(raw))
ValidateStrict == Apply("validate_and_trim_strict", validate_and_trim_strict(raw))
CoerceToTemplate == Apply("coerce_to_template", coerce_to_template(raw))
ParseFinalAnswer == Apply("parse_final_answer", parse_final_answer(raw))
IsSecureAnswer == Apply("is_secure_answer", is_secure_answer(raw))
ExtractCodeFromInput == Apply("extract_code_from_input", extract_code_from_input(raw))

TextNext ==
    \/ RunWithVllmDirect
    \/ RunWithServer
    \/ ValidateStrict
    \/ CoerceToTemplate
    \/ ParseFinalAnswer
    \/ IsSecureAnswer
    \/ ExtractCodeFromInput

TextSpec == TextInit /\ [][TextNext]_vars

(***************************************************************************)
(* Properties of the text functions                                        *)
(***************************************************************************)
Text(lines) == Join(lines, <<NL>>)

\* the strict validator accepted text, and its final word is word
AcceptedWith(text, word) ==
    /\ validate_and_trim_strict(text) # <<>>
    /\ EndsWith(validate_and_trim_strict(text), <<NL>> \o word)

Rejected(text) == validate_and_trim_strict(text) = <<>>

Recorded == op \in {"run_with_vllm_direct", "run_with_server"}

\* C7 as stated: every answer an analysis runner records carries a verdict, the verdict
\* is Secure only if the strict validator accepted the raw text with final word Secure,
\* and a rejected raw text is recorded non-empty with verdict Insecure.
C7_EveryRunnerRecordsVerdict ==
    Recorded =>
        /\ parse_final_answer(out) \in {Secure, Insecure}
        /\ parse_final_answer(out) = Secure => AcceptedWith(raw, Secure)
        /\ Rejected(raw) => out # <<>> /\ parse_final_answer(out) = Insecure

\* What the two runners do guarantee: no runner records a Secure verdict unless the
\* strict validator accepted the raw text with final word Secure; run_with_vllm_direct
\* records a rejected raw text non-empty with verdict Insecure, run_with_server records
\* it as the empty answer; an accepted raw text is recorded with the accepted word.
RunnersNeverSilentlySecure ==
    /\ Recorded =>
        /\ parse_final_answer(out) = Secure => AcceptedWith(raw, Secure)
        /\ is_secure_answer(out) => AcceptedWith(raw, Secure)
        /\ \A w \in {Secure, Insecure} :
              AcceptedWith(raw, w) => parse_final_answer(out) = w
    /\ op = "run_with_vllm_direct" =>
        /\ parse_final_answer(out) \in {Secure, Insecure}
        /\ Rejected(raw) => out # <<>> /\ parse_final_answer(out) = Insecure
    /\ op = "run_with_server" =>
        (Rejected(raw) => out = <<>> /\ parse_final_answer(out) = <<>>)

\* C8: for every raw text the document coerce_to_template returns is judged Insecure
\* by every downstream check: parse_final_answer gives Insecure, is_secure_answer is
\* false, and the marker "# Answer:\nInsecure" occurs in it.
C8_CoercedIsInsecure ==
    op = "coerce_to_template" =>
        /\ parse_final_answer(out) = Insecure
        /\ ~is_secure_answer(out)
        /\ Contains(out, insecure_marker)

\* the raw text whose own lines are "# Answer:" and "Secure", coerced
C8_Witness ==
    /\ op = "coerce_to_template"
    /\ raw = Text(<<AnswerHeader, Secure>>)
    /\ Contains(out, Text(<<AnswerHeader>>))

\* the number prefix "k. " of a serialized entry removed; <<>> when it is not there
Unnumbered(line, k) ==
    IF StartsWith(line, Numeral(k) \o <<".", SP>>) THEN Drop(line, 3) ELSE <<>>

\* the AnalysisResult a protocol text denotes: the lines between the reasoning header
\* and the last answer header, and the line after that header
ParseBack(text) ==
    LET ls == SplitNL(text)
        hdr == {i \in 1..Len(ls) : ls[i] = AnswerHeader}
        h == SetMax(hdr)
    IN  IF Len(ls) < 4 \/ ls[1] # ReasoningHeader \/ hdr = {} THEN NoResult
        ELSE IF h # Len(ls) - 1 \/ h < 3 THEN NoResult
        ELSE [reasoning |-> [k \in 1..(h - 2) |-> Unnumbered(ls[k + 1], k)],
              verdict |-> ls[h + 1]]

\* C9: validate_and_trim_strict applied to the canonical serialization of a well-formed
\* AnalysisResult returns a text that parses back to the same reasoning entries and
\* verdict, and applied to its own non-empty output it returns that output unchanged.
C9_RoundTrip ==
    (op = "validate_and_trim_strict" /\ ar # NoResult) =>
        /\ ParseBack(out) = ar
        /\ validate_and_trim_strict(out) = out

\* the verdict check as a statement about lines: norm is what is done to a line before
\* it is compared
LastHeaderFollowedBy(text, word, norm(_)) ==
    LET ls == SplitNL(text)
        hdr == {i \in 1..Len(ls) : norm(ls[i]) = AnswerHeader}
    IN  /\ hdr # {}
        /\ SetMax(hdr) < Len(ls)
        /\ norm(ls[SetMax(hdr) + 1]) = word

StripCR(line) == Strip(RemoveCR(line))

\* C10 as stated: is_secure_answer is true iff the text has a line equal to "# Answer:"
\* after trimming and the line right after the last such line equals "Secure" after
\* trimming.
C10_SecureIffLastHeaderTrimmed ==
    op = "is_secure_answer" => (out <=> LastHeaderFollowedBy(raw, Secure, Strip))

\* C10 amended: is_secure_answer is true iff the text has a line equal to "# Answer:"
\* after removing its carriage returns and trimming, and the line right after the last
\* such line equals "Secure" after removing its carriage returns and trimming; it is
\* false when the last header is the final line.
C10_SecureIffLastHeader ==
    op = "is_secure_answer" => (out <=> LastHeaderFollowedBy(raw, Secure, StripCR))

\* two answer blocks of which only the first says Secure: judged by the last one
C10_Witness ==
    /\ op = "is_secure_answer"
    /\ raw = Text(<<AnswerHeader, Secure, AnswerHeader, Insecure>>)
    /\ out = FALSE

\* the text the strict validator works on: the stripped text from its reasoning header
FromReasoningHeader(text) ==
    LET t0 == Strip(text)
    IN  IF StartsWith(t0, ReasoningHeader) THEN t0
        ELSE IF Find(t0, ReasoningHeader) = -1 THEN <<>>
        ELSE Strip(Drop(t0, Find(t0, ReasoningHeader)))

\* the positions of the lines of text that equal the answer header after trimming
HeaderLines(text) ==
    {i \in 1..Len(SplitLines(text)) : Strip(SplitLines(text)[i]) = AnswerHeader}

\* C19: when a text holds more than one line equal to "# Answer:" after the reasoning
\* header, the verdict of the text the strict validator returns is the line after the
\* LAST such header line, not the first.
C19_VerdictAfterLastHeader ==
    LET t == FromReasoningHeader(raw)
        ls == SplitLines(t)
        hdr == HeaderLines(t)
    IN  (op = "validate_and_trim_strict" /\ Cardinality(hdr) > 1 /\ out # <<>>) =>
            /\ SetMax(hdr) < Len(ls)
            /\ EndsWith(out, <<NL>> \o Strip(ls[SetMax(hdr) + 1]))

\* C20: the strict validator returns a non-empty result only when the verdict token is
\* the final line of the text: it returns the empty string when the verdict line after
\* "# Answer:" is followed by further non-empty content and when "# Answer:" is the
\* last line.
C20_NoTrailingContent ==
    LET ls == SplitLines(Strip(raw))
    IN  (op = "validate_and_trim_strict" /\ out # <<>>) =>
            /\ Len(ls) >= 2
            /\ Strip(ls[Len(ls)]) \in {Secure, Insecure}
            /\ EndsWith(out, <<NL>> \o Strip(ls[Len(ls)]))

\* what a validated text holds between its reasoning header and its answer header
ReasoningSection(text) ==
    Strip(Drop(Take(text, Find(text, AnswerHeader)), Len(ReasoningHeader)))

\* C21: every non-empty result of the strict validator has at least one reasoning entry
\* between the "# Reasoning:" header and the "# Answer:" header; a text whose reasoning
\* section is empty is rejected.
C21_AtLeastOneReasoning ==
    (op = "validate_and_trim_strict" /\ out # <<>>) => ReasoningSection(out) # <<>>

\* C26: the code block extractor of the analysis runners returns the trimmed body of the
\* first match of the strict pattern (fence, "c" in any letter case, newline, body,
\* closing fence) when the strict pattern matches, otherwise the trimmed body of the
\* first match of the lenient pattern, and none when the text holds no fenced block.
C26_FirstFencedBlockOrNone ==
    op = "extract_code_from_input" =>
        out = IF StrictGroup(raw) # NoMatch THEN Strip(StrictGroup(raw))
              ELSE IF FencedGroup(raw) # NoMatch THEN Strip(FencedGroup(raw))
              ELSE NoMatch

\* C29: on every answer text the analysis stage can record (a non-empty output of the
\* strict validator, an output of the coercion), the gate of the patchers and the
\* verdict extractor of the aggregators agree: the marker "# Answer:\nInsecure" occurs
\* in the text if and only if parse_final_answer returns "Insecure", also when the
\* answer header line carries surrounding whitespace or the reasoning holds "# Answer:"
\* inside a line.
C29_GateAgreesWithVerdict ==
    (op \in {"validate_and_trim_strict", "coerce_to_template"} /\ out # <<>>) =>
        (Contains(out, insecure_marker) <=> parse_final_answer(out) = Insecure)

(***************************************************************************)
(* Items, completion outcomes and responses                                *)
(***************************************************************************)
MaxItems == 2
MaxVulns == 2

\* the index an input item can bring along
ExplicitIndex == 7

NotADict == [isdict |-> FALSE, answer |-> <<>>, origin_code |-> <<>>, index |-> NoIndex]
Item(t, c) == [isdict |-> TRUE, answer |-> t, origin_code |-> c, index |-> NoIndex]
IndexedItem(t, c, n) == [isdict |-> TRUE, answer |-> t, origin_code |-> c, index |-> n]

InsecureAnswer == Text(<<ReasoningHeader, <<"1", ".", SP, "x">>, AnswerHeader, Insecure>>)
SecureAnswer == Text(<<ReasoningHeader, <<"1", ".", SP, "x">>, AnswerHeader, Secure>>)

\* an analysis with two answer blocks, the last of which says Secure; the item that
\* holds it brings an index of its own
RevisedAnswer ==
    Text(<<ReasoningHeader, <<"1", ".", SP, "x">>, AnswerHeader, Insecure,
           AnswerHeader, Secure>>)

ItemVocab ==
    { Item(InsecureAnswer, <<"x">>),
      Item(SecureAnswer, <<"x">>),
      Item(InsecureAnswer, <<SP>>),
      IndexedItem(RevisedAnswer, <<"x">>, ExplicitIndex),
      NotADict }

InputLists == UNION { [1..n -> ItemVocab] : n \in 0..MaxItems }

\* how one HTTP request can fail: a non-200 status (RuntimeError), a connection error or
\* timeout, a 200 response whose body cannot be decoded
FailureKinds == {"status", "transport", "decode"}

\* the reply texts of the patch prompts
FencedReply == <<Fence, "c", NL, "p", NL, Fence>>
EmptyFenceReply == <<Fence, "C", NL, Fence>>
PlainReply == <<"p">>

NoError == [type |-> "none", cause |-> "none"]
RetryError(c) == [type |-> "RetryError", cause |-> c]
KeyError == [type |-> "KeyError", cause |-> "none"]

None == [pos |-> 0, item |-> NotADict, patched_code |-> <<>>]

(***************************************************************************)
(* Full-patch dispatcher (DeepSeekCodePatcher)                             *)
(***************************************************************************)
MaxAttempts == 3

\* the 200 bodies: a fenced patch, a bare patch, a body without "choices"
Bodies == {"fenced", "plain", "malformed"}

Content(body) == IF body = "fenced" THEN FencedReply ELSE PlainReply

\* _async_call_llm: one session.post; returns the decoded body or raises
async_call_llm(outcome) ==
    [sent |-> 1, ok |-> outcome \in Bodies, value |-> outcome]

\* stop_after_attempt(3) with one attempt too many
stop_after_attempt_off_by_one(attempt_number) == attempt_number > MaxAttempts

\* @retry(..., stop=stop_after_attempt(3)): after a failed attempt, give up?
stop_after_attempt(attempt_number) == attempt_number >= MaxAttempts

parse_patch_response(response_text) ==
    LET m == FencedGroup(response_text)
    IN  IF m # NoMatch THEN Strip(m) ELSE Strip(response_text)

PATCHING_FAILED == <<"/", "F">>
ErrStr(e) == IF e.type = "RetryError" THEN <<SP, "T">> ELSE <<SP, "K">>

\* an except branch that drops the item
sentinel_dropped(i, item, e) == None

\* an except branch that returns the failure payload alone
sentinel_bare(i, item, e) ==
    [pos |-> i, item |-> NotADict, patched_code |-> PATCHING_FAILED \o ErrStr(e)]

\* except Exception as e: return {**item, "patched_code": f"// PATCHING FAILED: {e}"}
sentinel(i, item, e) ==
    [pos |-> i, item |-> item, patched_code |-> PATCHING_FAILED \o ErrStr(e)]

\* the checks of process_item before its request
passes_gate(item) ==
    /\ item.isdict
    /\ Contains(item.answer, insecure_marker)
    /\ Strip(item.origin_code) # <<>>

\* process_item after _call_deepseek_api returned api_response
patched(i, item, body) ==
    IF body = "malformed" THEN sentinel(i, item, KeyError)
    ELSE [pos |-> i, item |-> item,
          patched_code |-> parse_patch_response(Content(body))]

\* asyncio.gather with the results in completion order
gather_as_completed(slots, order) == [k \in 1..Len(order) |-> slots[order[k]]]

\* asyncio.gather(*tasks): the results in the order of the awaitables
gather(slots, order) == slots

IsResult(r) == r # None

Returned(i, r, how) ==
    /\ task' = [task EXCEPT ![i] = "returned"]
    /\ slot' = [slot EXCEPT ![i] = r]
    /\ calls' = [calls EXCEPT ![i] = how]
    /\ finished' = Append(finished, i)

variantVars == <<idx, vulns, vk, partial, status, vlog>>

\* asyncio.gather starts the coroutines in list order; process_item runs to its request
StartTask(i) ==
    /\ flow = "full_patch"
    /\ main = "gather"
    /\ task[i] = "pending"
    /\ \A j \in 1..(i - 1) : task[j] # "pending"
    /\ IF passes_gate(data[i])
       THEN /\ task' = [task EXCEPT ![i] = "calling"]
            /\ UNCHANGED <<slot, calls, finished>>
       ELSE Returned(i, None, "none")
    /\ UNCHANGED <<flow, data, main, results, attempt, lastcause, raised, lastsent,
                   variantVars, textVars, reduceVars>>

\* one attempt of _call_deepseek_api for item i ends, and what follows it without a
\* further request: the retry decision, and the rest of process_item
Attempt(i, outcome) ==
    /\ flow = "full_patch"
    /\ task[i] = "calling"
    /\ LET r == async_call_llm(outcome)
           n == attempt[i] + 1
       IN  /\ lastsent' = r.sent
           /\ attempt' = [attempt EXCEPT ![i] = n]
           /\ IF r.ok
              THEN /\ Returned(i, patched(i, data[i], r.value), r.value)
                   /\ lastcause' = [lastcause EXCEPT ![i] = "none"]
                   /\ UNCHANGED raised
              ELSE /\ lastcause' = [lastcause EXCEPT ![i] = outcome]
                   /\ IF stop_after_attempt(n)
                      THEN /\ raised' = [raised EXCEPT ![i] = RetryError(outcome)]
                           /\ Returned(i, sentinel(i, data[i], RetryError(outcome)),
                                       "exhausted")
                      ELSE UNCHANGED <<raised, task, slot, calls, finished>>
    /\ UNCHANGED <<flow, data, main, results, variantVars, textVars, reduceVars>>

\* patched_results = await asyncio.gather(*tasks), filtered, written out
Gather ==
    /\ flow = "full_patch"
    /\ main = "gather"
    /\ \A i \in 1..Len(data) : task[i] = "returned"
    /\ results' = SelectSeq(gather(slot, finished), IsResult)
    /\ main' = "done"
    /\ UNCHANGED <<flow, data, task, attempt, lastcause, raised, slot, finished, calls,
                   lastsent, variantVars, textVars, reduceVars>>

(***************************************************************************)
(* Variant generation (LLMCaller, DeepseekVariantPatcher)                  *)
(***************************************************************************)
Outcome(k, es, t) == [kind |-> k, elems |-> es, text |-> t]

VariantFailures == { Outcome(k, <<>>, <<>>) : k \in {"status", "transport"} }

Descriptor(k) == <<"d1", "d2", "d3", "d4">>[k]

\* what the descriptor-extraction prompt can be answered with: nothing, text that is
\* no JSON, a JSON array of descriptors, a JSON string (iterating it gives its
\* characters), a JSON object (iterating it gives its keys), a non-zero JSON number
AnalysisReplies ==
    { Outcome("blank", <<>>, <<>>),
      Outcome("invalid", <<>>, <<>>),
      Outcome("string", <<"u", "v">>, <<>>),
      Outcome("object", <<"k">>, <<>>),
      Outcome("number", <<>>, <<>>) }
    \cup { Outcome("list", [k \in 1..n |-> Descriptor(k)], <<>>) : n \in 0..MaxVulns }

GenerationReplies ==
    { Outcome("reply", <<>>, t) : t \in {FencedReply, EmptyFenceReply, PlainReply} }

Raises(outcome) == outcome.kind \in {"status", "transport"}

\* the failure a completion call raised to its caller, "none" when it returned
Cause(outcome) == IF Raises(outcome) THEN outcome.kind ELSE "none"

\* the exception the handler of item i has caught; the exceptions of the items before
\* it are gone with their handlers
Caught(i, cause) == [j \in 1..Len(data) |-> IF j = i THEN cause ELSE "none"]

\* how the second request can end: it is sent only after a RuntimeError of the first
Resent(first, outcomes) == IF first.kind = "status" THEN outcomes ELSE {first}

\* LLMCaller.create_completion: first is how the request sent under the try ends, second
\* how the request sent by the worker thread of the except RuntimeError branch ends
create_completion(first, second) ==
    IF first.kind = "status"
    THEN [sent |-> 2, outcome |-> second]
    ELSE [sent |-> 1, outcome |-> first]

\* analyze_vulnerabilities: json.loads(raw) if raw else []
analyze_vulnerabilities(completion) ==
    IF Raises(completion) \/ completion.kind = "invalid"
    THEN [raised |-> TRUE, truthy |-> FALSE, iterable |-> FALSE, elems |-> <<>>]
    ELSE [raised |-> FALSE,
          truthy |-> completion.elems # <<>> \/ completion.kind = "number",
          iterable |-> completion.kind # "number",
          elems |-> completion.elems]

\* an extractor that takes a reply without a fenced block as the code
extract_unfenced(text) ==
    IF text = <<>> THEN NoMatch
    ELSE LET m == FencedGroup(text)
         IN  IF m # NoMatch THEN Strip(m) ELSE Strip(text)

\* extract_code_block_from_model; NoMatch stands for None
extract_code_block_from_model(text) ==
    IF text = <<>> THEN NoMatch
    ELSE LET m == FencedGroup(text)
         IN  IF m # NoMatch THEN Strip(m) ELSE NoMatch

\* the except branch leaving the loop instead of going on
abort_after_error(i, n) == n

\* the except branch going back to the item that failed
retry_after_error(i, n) == i

\* except Exception: ... continue
after_error(i, n) == i + 1

\* an except branch that takes back the variants of the item that failed
results_rolled_back(records, i) == SelectSeq(records, LAMBDA r : r.pos # i + 1)

\* the list results when except Exception is entered for item i: as it was
results_after_error(records, i) == records

\* result = dict(item); result["index"] = idx; result["patched_code"] = variant_code
\* (k, the position of the descriptor, is not a field of the record)
variant(i, item, code, k) ==
    [pos |-> i + 1, item |-> item, index |-> i, patched_code |-> code, k |-> k]

\* what one completion call of the current item did: for the descriptor extraction the
\* descriptors it gave, for a patch generation the descriptor it was for and its code
LogEntry(r, es, d, t, code) ==
    [raised |-> r, elems |-> es, desc |-> d, text |-> t, code |-> code]

\* the current item ends
Ended(how) == status' = [status EXCEPT ![idx + 1] = how]

\* one iteration of "for idx, item in enumerate(entries)" up to its for v_desc loop
VisitItem ==
    /\ flow = "variant"
    /\ main = "loop"
    /\ idx < Len(data)
    /\ LET item == data[idx + 1]
           n == Len(data)
       IN  IF ~item.isdict
           THEN /\ idx' = after_error(idx, n)
                /\ Ended("error")
                /\ vlog' = <<>>
                /\ lastcause' = Caught(idx + 1, "none")
                /\ UNCHANGED <<main, vulns, vk, lastsent>>
           ELSE IF ~Contains(item.answer, insecure_marker)
           THEN /\ idx' = idx + 1
                /\ Ended("excluded")
                /\ vlog' = <<>>
                /\ lastcause' = Caught(idx + 1, "none")
                /\ UNCHANGED <<main, vulns, vk, lastsent>>
           ELSE IF Strip(item.origin_code) = <<>>
           THEN /\ idx' = idx + 1
                /\ Ended("no_origin_code")
                /\ vlog' = <<>>
                /\ lastcause' = Caught(idx + 1, "none")
                /\ UNCHANGED <<main, vulns, vk, lastsent>>
           ELSE \E first \in VariantFailures \cup AnalysisReplies :
                \E second \in Resent(first, VariantFailures \cup AnalysisReplies) :
                LET c == create_completion(first, second)
                    v == analyze_vulnerabilities(c.outcome)
                IN  /\ lastsent' = c.sent
                    /\ lastcause' = Caught(idx + 1, Cause(c.outcome))
                    /\ vlog' = <<LogEntry(v.raised \/ (v.truthy /\ ~v.iterable),
                                          v.elems, "", <<>>, <<>>)>>
                    /\ IF v.raised THEN
                           /\ idx' = after_error(idx, n)
                           /\ Ended("error")
                           /\ UNCHANGED <<main, vulns, vk>>
                       ELSE IF ~v.truthy THEN
                           /\ idx' = idx + 1
                           /\ Ended("no_vulns")
                           /\ UNCHANGED <<main, vulns, vk>>
                       ELSE IF ~v.iterable THEN
                           /\ idx' = after_error(idx, n)
                           /\ Ended("error")
                           /\ UNCHANGED <<main, vulns, vk>>
                       ELSE
                           /\ vulns' = v.elems
                           /\ vk' = 0
                           /\ main' = "variants"
                           /\ idx' = idx
                           /\ UNCHANGED status
    /\ UNCHANGED <<flow, data, results, partial, task, attempt, raised, slot,
                   finished, calls, textVars, reduceVars>>

\* one iteration of "for v_desc in vulns", and the end of the item after the last one
GenerateVariant ==
    /\ flow = "variant"
    /\ main = "variants"
    /\ \E first \in VariantFailures \cup GenerationReplies :
       \E second \in Resent(first, VariantFailures \cup GenerationReplies) :
       LET c == create_completion(first, second)
           code == extract_code_block_from_model(Strip(c.outcome.text))
           made == ~Raises(c.outcome) /\ code # NoMatch /\ code # <<>>
       IN  /\ lastsent' = c.sent
           /\ lastcause' = Caught(idx + 1, Cause(c.outcome))
           /\ vlog' = Append(vlog, LogEntry(Raises(c.outcome), <<>>, vulns[vk + 1],
                                            c.outcome.text,
                                            IF made THEN code ELSE <<>>))
           /\ partial' = IF made
                         THEN Append(partial, variant(idx, data[idx + 1], code, vk + 1))
                         ELSE IF Raises(c.outcome) THEN results_after_error(partial, idx)
                         ELSE partial
           /\ IF Raises(c.outcome) THEN
                  /\ idx' = after_error(idx, Len(data))
                  /\ Ended("error")
                  /\ main' = "loop"
                  /\ vulns' = <<>>
                  /\ vk' = 0
              ELSE IF vk + 1 = Len(vulns) THEN
                  /\ idx' = idx + 1
                  /\ Ended("emitted")
                  /\ main' = "loop"
                  /\ vulns' = <<>>
                  /\ vk' = 0
              ELSE
                  /\ vk' = vk + 1
                  /\ UNCHANGED <<idx, main, vulns, status>>
    /\ UNCHANGED <<flow, data, results, task, attempt, raised, slot,
                   finished, calls, textVars, reduceVars>>

\* return results
ReturnResults ==
    /\ flow = "variant"
    /\ main = "loop"
    /\ idx >= Len(data)
    /\ results' = partial
    /\ main' = "done"
    /\ lastcause' = Caught(0, "none")
    /\ UNCHANGED <<flow, data, partial, idx, vulns, vk, status, vlog, lastsent, task, attempt,
                   raised, slot, finished, calls, textVars, reduceVars>>

(***************************************************************************)
(* Dispatch specification: one run of one of the two flows over one list   *)
(***************************************************************************)
TextIdle ==
    /\ raw = <<>>
    /\ ar = NoResult
    /\ op = "none"
    /\ out = <<>>

Init ==
    /\ TextIdle
    /\ ReduceIdle
    /\ flow \in {"full_patch", "variant"}
    /\ data \in InputLists
    /\ main = IF flow = "full_patch" THEN "gather" ELSE "loop"
    /\ results = <<>>
    /\ task = [i \in 1..Len(data) |-> "pending"]
    /\ attempt = [i \in 1..Len(data) |-> 0]
    /\ lastcause = [i \in 1..Len(data) |-> "none"]
    /\ raised = [i \in 1..Len(data) |-> NoError]
    /\ slot = [i \in 1..Len(data) |-> None]
    /\ calls = [i \in 1..Len(data) |-> "none"]
    /\ finished = <<>>
    /\ idx = 0
    /\ vulns = <<>>
    /\ vk = 0
    /\ partial = <<>>
    /\ status = [i \in 1..Len(data) |-> "pending"]
    /\ vlog = <<>>
    /\ lastsent = 0

Next ==
    \/ \E i \in 1..Len(data) : StartTask(i)
    \/ \E i \in 1..Len(data), outcome \in Bodies \cup FailureKinds : Attempt(i, outcome)
    \/ Gather
    \/ VisitItem
    \/ GenerateVariant
    \/ ReturnResults

Spec == Init /\ [][Next]_vars

\* the run returns when every request it waits for is answered
FairSpec == Spec /\ WF_vars(Next)

(***************************************************************************)
(* Properties of the dispatcher and of the variant state machine           *)
(***************************************************************************)
Eligible(item) ==
    /\ item.isdict
    /\ Contains(item.answer, insecure_marker)
    /\ Strip(item.origin_code) # <<>>

FromItem(r, i) == r.pos = i

RecordsOf(i, records) == SelectSeq(records, LAMBDA r : FromItem(r, i))

FullDone == flow = "full_patch" /\ main = "done"

\* C1 as stated: the full-patch dispatcher's output list has exactly as many records as
\* the input list has items.
C1_OutputLengthEqualsInput ==
    FullDone => Len(results) = Len(data)

\* C1 amended: the output list holds exactly one record for every eligible item (a
\* dict whose answer contains the Insecure marker and whose origin_code is not blank)
\* and none for any other item, whatever calls fail; so it has exactly as many records
\* as the input has eligible items, never more than the input has items.
C1_OneRecordPerEligibleItem ==
    FullDone =>
        /\ \A i \in 1..Len(data) :
              Len(RecordsOf(i, results)) = IF Eligible(data[i]) THEN 1 ELSE 0
        /\ Len(results) = Cardinality({i \in 1..Len(data) : Eligible(data[i])})
        /\ Len(results) <= Len(data)

\* a finished run in which an item was left out and the call of another was exhausted
C1_Witness ==
    /\ FullDone
    /\ Len(results) < Len(data)
    /\ \E i \in 1..Len(data) : raised[i] # NoError

\* C2: whatever order the per-item calls finish in, the records of the output appear
\* in the relative order of the input items they derive from.
C2_OutputInInputOrder ==
    FullDone =>
        \A m, n \in 1..Len(results) : m < n => results[m].pos < results[n].pos

\* a finished run with two records whose second call finished first
C2_Witness ==
    /\ FullDone
    /\ Len(results) = 2
    /\ finished = <<2, 1>>

\* what the full-patch dispatcher owes item i, given how the item's own call ended
OwnPatchResult(i, records) ==
    IF ~Eligible(data[i]) THEN records = <<>>
    ELSE /\ Len(records) = 1
         /\ records[1].pos = i
         /\ records[1].item = data[i]
         /\ calls[i] \in {"fenced", "plain"} => records[1].patched_code = <<"p">>
         /\ calls[i] \in {"exhausted", "malformed"} =>
                StartsWith(records[1].patched_code, PATCHING_FAILED)

\* what the variant state machine owes item i, given the log of the item's own calls:
\* one Variant for every patch call that returned a non-empty code block
RECURSIVE OwnVariantsFrom(_, _, _)
OwnVariantsFrom(i, log, k) ==
    IF k + 1 > Len(log) THEN <<>>
    ELSE (IF ~log[k + 1].raised /\ log[k + 1].code # <<>>
          THEN <<[pos |-> i, item |-> data[i], index |-> i - 1,
                  patched_code |-> log[k + 1].code, k |-> k]>>
          ELSE <<>>)
         \o OwnVariantsFrom(i, log, k + 1)

OwnVariants(i, log) ==
    IF ~Eligible(data[i]) \/ log = <<>> THEN <<>>
    ELSE IF log[1].raised THEN <<>>
    ELSE OwnVariantsFrom(i, log, 1)

\* the item the variant loop is working on, or the last one it ended
Current == IF main = "variants" THEN idx + 1 ELSE idx

C3_Results ==
    /\ FullDone => \A i \in 1..Len(data) : OwnPatchResult(i, RecordsOf(i, results))
    /\ (flow = "variant" /\ Current >= 1 /\ Current <= Len(data)) =>
          RecordsOf(Current, partial) = OwnVariants(Current, vlog)
    /\ (flow = "variant" /\ main = "done") =>
          /\ results = partial
          /\ \A i \in 1..Len(data) : status[i] # "pending"

C3_Step ==
    flow = "variant" =>
        /\ \A j \in 1..Len(data) :
              j # idx + 1 => RecordsOf(j, partial') = RecordsOf(j, partial)
        /\ (main' = "loop" /\ idx' # idx) => idx' = idx + 1

\* C3: a failure of one item's completion call never prevents any other item from being
\* processed: in both flows every item gets the result determined by the item itself
\* and its own calls, the variant loop goes on with the next item after every item, and
\* the run returns its output.
C3_FailureIsPerItem ==
    /\ [](C3_Results)
    /\ [][C3_Step]_vars
    /\ <>(main = "done")

\* a finished variant run whose first item ended in an error and whose second item
\* has a Variant
C3_Witness ==
    /\ flow = "variant"
    /\ main = "done"
    /\ Len(data) = 2
    /\ status[1] = "error"
    /\ Len(RecordsOf(2, results)) >= 1

\* C4: an eligible item whose completion call or response handling raises is not
\* dropped: the output holds exactly one record for it, with every original field of
\* the item unchanged and a patched_code that starts with "// PATCHING FAILED:".
C4_FailedItemKeptWithSentinel ==
    FullDone =>
        \A i \in 1..Len(data) :
            (Eligible(data[i]) /\ calls[i] \in {"exhausted", "malformed"}) =>
                /\ Len(RecordsOf(i, results)) = 1
                /\ RecordsOf(i, results)[1].item = data[i]
                /\ StartsWith(RecordsOf(i, results)[1].patched_code, PATCHING_FAILED)

\* a finished run with an item whose response handling raised
C4_Witness ==
    /\ FullDone
    /\ \E i \in 1..Len(data) : calls[i] = "malformed"

C5_Attempts ==
    \A i \in 1..Len(data) :
        /\ attempt[i] <= 3
        /\ raised[i] # NoError =>
              /\ attempt[i] = 3
              /\ raised[i] = RetryError(lastcause[i])
              /\ calls[i] = "exhausted"
        /\ calls[i] \in Bodies => raised[i] = NoError /\ attempt[i] >= 1

C5_Step ==
    \A i \in 1..Len(data) :
        /\ attempt'[i] \in {attempt[i], attempt[i] + 1}
        /\ task[i] = "returned" => attempt'[i] = attempt[i] /\ calls'[i] = calls[i]
        /\ (task[i] = "calling" /\ calls'[i] \in Bodies) => attempt'[i] = attempt[i] + 1
        /\ (task[i] = "calling" /\ task'[i] = "calling") => calls'[i] = "none"

\* C5: the retrying invoker calls the completion client at most 3 times for one
\* request; it returns the result of the first attempt that succeeds and makes no
\* attempt after it; it fails only after 3 failed attempts, with an exhaustion error
\* that wraps the cause of the last attempt.
C5_AtMostThreeAttempts ==
    /\ [](C5_Attempts)
    /\ [][C5_Step]_vars

\* a request that succeeded at its third attempt
C5_Witness ==
    \E i \in 1..Len(data) : attempt[i] = 3 /\ calls[i] = "fenced"

\* C6: one invocation of the completion client sends exactly one outbound HTTP request,
\* whether the request succeeds, is answered with a non-200 status or fails at
\* transport level, in the full-patch client and in LLMCaller.create_completion alike.
C6_OneRequestPerInvocation ==
    lastsent \in {0, 1}

\* the stored analysis verdict of an item: the line after its last answer header
StoredVerdict(item) == IF item.isdict THEN parse_final_answer(item.answer) ELSE <<>>

\* a completion request has been issued for item i
Requested(i) ==
    IF flow = "full_patch" THEN task[i] = "calling" \/ attempt[i] > 0
    ELSE \/ Current = i /\ vlog # <<>>
         \/ status[i] \in {"no_vulns", "emitted"}
         \/ status[i] = "error" /\ data[i].isdict

Produced == IF flow = "variant" THEN partial ELSE results

\* C11: no descriptor-extraction or patch-generation request is ever issued, and no
\* output record is ever produced, for an item whose stored analysis verdict (the line
\* after the last answer header) is Secure, in the full-patch flow and in the variant
\* flow.
C11_NoRequestForSecureItem ==
    \A i \in 1..Len(data) :
        StoredVerdict(data[i]) = Secure =>
            /\ ~Requested(i)
            /\ RecordsOf(i, Produced) = <<>>

\* the reply of a patch-generation call holds a non-empty extractable code block
Extractable(text) ==
    /\ FencedGroup(text) # NoMatch
    /\ Strip(FencedGroup(text)) # <<>>

\* the descriptors the extraction call of the current item returned
Extracted == vlog[1].elems

C13_ExplicitIndexKept ==
    flow = "variant" =>
        \A n \in 1..Len(partial) :
            partial[n].index =
                IF partial[n].item.index # NoIndex THEN partial[n].item.index
                ELSE partial[n].pos - 1
\* TARGET_SUFFIX / SECURE_SUFFIX of the faithfulness scripts
SECURE_SUFFIX == AnswerHeader \o <<NL>> \o Secure
INSECURE_SUFFIX == AnswerHeader \o <<NL>> \o Insecure

\* filter_items: the records kept in the origin-code list, each with the position of the
\* analysed item it is
filter_items(items) ==
    SelectSeq([i \in 1..Len(items) |-> [pos |-> i, item |-> items[i]]],
              LAMBDA r : ~EndsWith(r.item.answer, SECURE_SUFFIX))

\* extract_patched_entries, then the re-analysis runner: one answer for every record
\* that has a patched_code, in order; each with the position of the item it derives from
extract_patched_entries(records) ==
    [k \in 1..Len(records) |-> [pos |-> records[k].pos]]

\* C17: in the full-patch flow the k-th record of the origin-code list (the analysed
\* items, without those filter_items removes) and the k-th record of the re-analysis
\* answer list derive from the same analysed item, for every list of analysed items.
C17_ZippedListsAligned ==
    (FullDone /\ \A i \in 1..Len(data) : data[i].isdict) =>
        LET origins == filter_items(data)
            answers == extract_patched_entries(results)
        IN  \A k \in 1..Len(origins) :
                k <= Len(answers) => origins[k].pos = answers[k].pos

(***************************************************************************)
(* Aggregators: insecure ratio (cul_full_patched), secure coverage          *)
(* (cul_N_patched)                                                         *)
(***************************************************************************)
\* range(1, 11): the chunk files 1..10
NumChunks == 10
MaxChunk == 2
MaxIndex == 2

\* an answer whose lines end in carriage returns
CRAnswer == Text(<<AnswerHeader \o <<CR>>, <<"I", CR, "e", CR>> >>)

AnswerVocab == {InsecureAnswer, SecureAnswer, RevisedAnswer, CRAnswer, <<>>}

IndexVocab == 0..MaxIndex

\* the arrays a chunk file of the full-patch answers can hold
ChunkArrays ==
    LET elems == {VerdictRecord(NoIndex, t) : t \in AnswerVocab} \cup {NotAnObject}
    IN  UNION { [1..n -> elems] : n \in 0..MaxChunk }

\* the elements a chunk file of the variant answers can hold
VariantAnswers ==
    {VerdictRecord(i, t) : i \in IndexVocab \cup {NoIndex}, t \in AnswerVocab}
        \cup {NotAnObject}

\* the loop "for pos, obj in enumerate(arr)" of the ratio aggregator: what it adds to a
RECURSIVE InsecureIn(_)
InsecureIn(arr) ==
    IF arr = <<>> THEN 0
    ELSE (IF Head(arr).isdict /\ parse_final_answer(Head(arr).answer) = Insecure
          THEN 1 ELSE 0) + InsecureIn(Tail(arr))

\* a percentage that takes the share of the other answers
pct_of_rest(count, total) ==
    IF total > 0 THEN Fraction((total - count) * 100, total) ELSE Fraction(0, 1)

\* pct = (a / num * 100.0) if num > 0 else 0.0
pct_of(count, total) ==
    IF total > 0 THEN Fraction(count * 100, total) ELSE Fraction(0, 1)

\* the verdict of a stored answer: the line after its last answer header, both lines
\* without carriage returns and trimmed
VerdictIs(text, word) == LastHeaderFollowedBy(text, word, StripCR)

\* the items and the Insecure items of an array
Census(arr) ==
    [total |-> Len(arr),
     insecure |-> Cardinality({k \in 1..Len(arr) :
                                 arr[k].isdict /\ VerdictIs(arr[k].answer, Insecure)})]

FaithVars == <<code_items, answer_items, groups, faithful>>
FileVars == <<code_files, ans_files>>
\* the chunk files, each with what the loop over its array adds to a
ChunkFiles ==
    { [arr |-> arr, insecure |-> InsecureIn(arr), census |-> Census(arr)] :
        arr \in ChunkArrays }

\* the elements of the variant answer files, each with what is_secure_answer gives for it
JudgedAnswers ==
    { [o |-> o,
       is_secure |-> is_secure_answer(o.answer),
       pair |-> <<o.index, VerdictIs(o.answer, Secure)>>] : o \in VariantAnswers }

ReduceRest == <<last, FaithVars, FileVars>>

\* one chunk file of the ratio aggregator is loaded and counted
RatioFile ==
    /\ agg = "ratio"
    /\ chunk <= NumChunks
    /\ \E f \in ChunkFiles :
        /\ num' = num + Len(f.arr)
        /\ a' = a + f.insecure
        /\ counted' = [total |-> counted.total + f.census.total,
                       insecure |-> counted.insecure + f.census.insecure]
    /\ chunk' = chunk + 1
    /\ UNCHANGED <<agg, all_indices, index_has_secure, merged, stats, ReduceRest,
                   dispatchVars, textVars>>

\* the loop over the chunk files goes on: the array is exhausted, or the file is missing
\* or is no JSON array
NextFile ==
    /\ agg \in {"ratio", "coverage"}
    /\ chunk <= NumChunks
    /\ chunk' = chunk + 1
    /\ UNCHANGED <<agg, num, a, counted, all_indices, index_has_secure, merged, stats,
                   ReduceRest, dispatchVars, textVars>>

\* the statistics of the ratio aggregator are returned
RatioReport ==
    /\ agg = "ratio"
    /\ chunk = NumChunks + 1
    /\ stats = NoStats
    /\ stats' = [num |-> num, a |-> a, pct |-> pct_of(a, num)]
    /\ UNCHANGED <<agg, chunk, num, a, counted, all_indices, index_has_secure, merged,
                   ReduceRest, dispatchVars, textVars>>

\* a merge in which the first verdict seen for an index wins
set_first(map, i) ==
    [k \in DOMAIN map \cup {i} |-> IF k \in DOMAIN map THEN map[k] ELSE TRUE]

\* index_has_secure[idx] = True
set_true(map, i) == [k \in DOMAIN map \cup {i} |-> IF k = i THEN TRUE ELSE map[k]]

\* a merge that overwrites the flag with the verdict of the record
setdefault_overwrite(map, i) == [k \in DOMAIN map \cup {i} |-> IF k = i THEN FALSE ELSE map[k]]

\* index_has_secure.setdefault(idx, False)
setdefault_false(map, i) ==
    IF i \in DOMAIN map THEN map
    ELSE [k \in DOMAIN map \cup {i} |-> IF k = i THEN FALSE ELSE map[k]]

\* one element of the array of a chunk file of the coverage aggregator
CoverageRecord ==
    /\ agg = "coverage"
    /\ chunk <= NumChunks
    /\ stats = NoStats
    /\ \E j \in JudgedAnswers :
        IF ~j.o.isdict \/ j.o.index = NoIndex
        THEN UNCHANGED <<all_indices, index_has_secure, merged, last>>
        ELSE /\ all_indices' = all_indices \cup {j.o.index}
             /\ index_has_secure' =
                    IF j.is_secure
                    THEN set_true(index_has_secure, j.o.index)
                    ELSE setdefault_false(index_has_secure, j.o.index)
             /\ merged' = merged \cup {j.pair}
             /\ last' = [index |-> j.pair[1], secure |-> j.pair[2],
                         again |-> j.pair \in merged]
    /\ UNCHANGED <<agg, chunk, num, a, counted, stats, FaithVars, FileVars, dispatchVars,
                   textVars>>

\* num, a and pct of the coverage aggregator
coverage_stats(indices, map) ==
    LET n == Cardinality(indices)
        c == Cardinality({k \in DOMAIN map : map[k] = TRUE})
    IN  [num |-> n, a |-> c, pct |-> pct_of(c, n)]

\* the statistics of the coverage aggregator are returned
CoverageReport ==
    /\ agg = "coverage"
    /\ chunk = NumChunks + 1
    /\ stats = NoStats
    /\ stats' = coverage_stats(all_indices, index_has_secure)
    /\ UNCHANGED <<agg, chunk, num, a, counted, all_indices, index_has_secure, merged,
                   ReduceRest, dispatchVars, textVars>>

(***************************************************************************)
(* Faithfulness builder for the variants (build_n_patched_faithfulness)    *)
(***************************************************************************)
MaxGroup == 2

Digits == {"0", "1", "2", "3", "4", "5", "6", "7", "8", "9"}

\* REASON_NUM_RE.match(line): blanks, digits, one of ") . : -", then group(3); NoMatch
\* when the line does not match
reason_num(line) ==
    LET ns == {i \in 1..Len(line) : ~IsSpace(line[i])}
        start == IF ns = {} THEN Len(line) + 1 ELSE SetMin(ns)
        nd == {i \in start..Len(line) : line[i] \notin Digits}
        stop == IF nd = {} THEN Len(line) + 1 ELSE SetMin(nd)
    IN  IF stop > start /\ stop <= Len(line) /\ line[stop] \in {")", ".", ":", "-"}
        THEN Drop(line, stop)
        ELSE NoMatch

\* " ".join(current).strip() appended when current is not empty
Flushed(reasonings, current) ==
    IF current # <<>> THEN Append(reasonings, Strip(Join(current, <<SP>>)))
    ELSE reasonings

\* the loop "for line in lines" of parse_first_reasonings and what follows it
RECURSIVE ReasonLoop(_, _, _)
ReasonLoop(lines, reasonings, current) ==
    IF lines = <<>> THEN Flushed(reasonings, current)
    ELSE LET line == RStrip(Head(lines))
             m == reason_num(line)
         IN  IF m # NoMatch
             THEN ReasonLoop(Tail(lines), Flushed(reasonings, current),
                             IF Strip(m) # <<>> THEN <<Strip(m)>> ELSE <<>>)
             ELSE ReasonLoop(Tail(lines), reasonings,
                             IF Strip(line) # <<>> THEN Append(current, Strip(line))
                             ELSE current)

parse_first_reasonings(answer_text) ==
    IF ~Contains(answer_text, AnswerHeader) THEN <<>>
    ELSE ReasonLoop(SplitLines(Take(answer_text, Find(answer_text, AnswerHeader))),
                    <<>>, <<>>)

\* an element of the variant code file: a Variant with the first-stage analysis of its
\* item in "answer"
CodeObj(i, analysis, c) == [index |-> i, answer |-> analysis, origin_code |-> c]

\* an element of the second-pass answer file
AnsObj(t) == [answer |-> t]

\* merged = dict(code_obj); merged['answer'] = v  (code_answer is no key of the merged
\* dict: it is the answer of code_obj, which the assignment replaces)
Merged(code_obj, ans_obj) ==
    [index |-> code_obj.index, answer |-> ans_obj.answer,
     origin_code |-> code_obj.origin_code, code_answer |-> code_obj.answer]

build_groups(codes, answers) ==
    LET pairs == [k \in 1..Len(codes) |-> Merged(codes[k], answers[k])]
        keys == {pairs[k].index : k \in 1..Len(pairs)} \ {NoIndex}
    IN  [built |-> TRUE,
         of |-> [i \in keys |-> SelectSeq(pairs, LAMBDA m : m.index = i)]]

\* process_group returned None
NoFaith == [processed |-> FALSE, origin_code |-> <<>>, faithful |-> <<>>]

\* the loop "for pos, obj in enumerate(usable, start=1)"
RECURSIVE FaithfulTexts(_, _, _)
FaithfulTexts(items, reasonings, pos) ==
    IF pos > Len(items) THEN <<>>
    ELSE (IF EndsWith(items[pos].answer, INSECURE_SUFFIX) THEN <<reasonings[pos]>> ELSE <<>>)
         \o FaithfulTexts(items, reasonings, pos + 1)

process_group(items) ==
    LET reasonings == parse_first_reasonings(items[1].answer)
        coded == {k \in 1..Len(items) : Strip(items[k].origin_code) # <<>>}
    IN  IF reasonings = <<>> \/ Len(items) # Len(reasonings) \/ coded = {} THEN NoFaith
        ELSE [processed |-> TRUE,
              origin_code |-> items[SetMin(coded)].origin_code,
              faithful |-> FaithfulTexts(items, reasonings, 1)]

\* the first-stage analyses of the original items, and the second-pass answers of the
\* variants
FirstStage ==
    { Serialize([reasoning |-> << <<"x">> >>, verdict |-> Insecure]),
      Serialize([reasoning |-> << <<"x">>, <<"y">> >>, verdict |-> Insecure]) }

SecondPass ==
    { Serialize([reasoning |-> << <<"z">> >>, verdict |-> v]) : v \in {Secure, Insecure} }

\* the variant code files: for the items 0 and 1, up to MaxGroup variants each, in the
\* order process_entries emits them
VariantsOf(i, analysis, n) == [k \in 1..n |-> CodeObj(i, analysis, <<"c">>)]

CodeFiles ==
    { VariantsOf(0, f0, n0) \o VariantsOf(1, f1, n1) :
        f0 \in FirstStage, f1 \in FirstStage, n0 \in 0..MaxGroup, n1 \in 0..MaxGroup }

AnswerFiles(n) == [1..n -> {AnsObj(t) : t \in SecondPass}]

\* groups = build_groups(code_items, answer_items)
BuildGroups ==
    /\ agg = "faithfulness"
    /\ ~groups.built
    /\ groups' = build_groups(code_items, answer_items)
    /\ UNCHANGED <<agg, chunk, num, a, counted, all_indices, index_has_secure, merged, last,
                   stats, code_items, answer_items, faithful, FileVars, dispatchVars,
                   textVars>>

\* result, record = process_group(idx, items)
ProcessGroup(i) ==
    /\ agg = "faithfulness"
    /\ groups.built
    /\ i \in DOMAIN groups.of
    /\ i \notin DOMAIN faithful
    /\ faithful' = [k \in DOMAIN faithful \cup {i} |->
                       IF k = i THEN process_group(groups.of[i]) ELSE faithful[k]]
    /\ UNCHANGED <<agg, chunk, num, a, counted, all_indices, index_has_secure, merged, last,
                   stats, code_items, answer_items, groups, FileVars, dispatchVars,
                   textVars>>

(***************************************************************************)
(* Index injection (del_N_patched)                                         *)
(***************************************************************************)
LastInjected == 9

\* an element of a variant code file, with or without "index"
CodeRecord(i) == [isdict |-> TRUE, index |-> i, answer |-> <<>>]

\* the arrays of a code chunk file and of an answer chunk file before the injection
CodeArrays ==
    LET elems == {CodeRecord(i) : i \in {0, 1, NoIndex}} \cup {NotAnObject}
    IN  UNION { [1..n -> elems] : n \in 0..MaxChunk }

AnswerArrays ==
    LET elems == {VerdictRecord(i, InsecureAnswer) : i \in {NoIndex, ExplicitIndex}}
                     \cup {NotAnObject}
    IN  UNION { [1..n -> elems] : n \in 0..MaxChunk }

\* the content of file number c, or no file
FileOf(c, arrays) == {<<>>} \cup {[k \in {c} |-> arr] : arr \in arrays}

\* the files of a model directory: of one chunk number, the code file or the answer
\* file or both
Directories ==
    UNION { { [code |-> cf, ans |-> af] :
                cf \in FileOf(c, CodeArrays), af \in FileOf(c, AnswerArrays) } :
            c \in 1..NumChunks }

Min(m, n) == IF m <= n THEN m ELSE n

\* an injection that keeps the answer records that have a code record only
inject_index_zipped(code_arr, ans_arr) ==
    [k \in 1..Min(Len(code_arr), Len(ans_arr)) |->
        IF code_arr[k].isdict /\ ans_arr[k].isdict /\ code_arr[k].index # NoIndex
        THEN [ans_arr[k] EXCEPT !.index = code_arr[k].index]
        ELSE ans_arr[k]]

\* inject_index_for_pair: the array it saves to ans_path
inject_index_for_pair(code_arr, ans_arr) ==
    [k \in 1..Len(ans_arr) |->
        IF /\ k <= Min(Len(code_arr), Len(ans_arr))
           /\ code_arr[k].isdict /\ ans_arr[k].isdict
           /\ code_arr[k].index # NoIndex
        THEN [ans_arr[k] EXCEPT !.index = code_arr[k].index]
        ELSE ans_arr[k]]

\* one iteration of "for i in range(1, 10)" of the injection's process_model_dir
InjectChunk ==
    /\ agg = "inject"
    /\ chunk <= LastInjected
    /\ IF chunk \in DOMAIN code_files /\ chunk \in DOMAIN ans_files
       THEN ans_files' = [ans_files EXCEPT
                            ![chunk] = inject_index_for_pair(code_files[chunk], @)]
       ELSE UNCHANGED ans_files
    /\ chunk' = chunk + 1
    /\ UNCHANGED <<agg, num, a, counted, all_indices, index_has_secure, merged, last,
                   stats, FaithVars, code_files, dispatchVars, textVars>>

(***************************************************************************)
(* Reduce specification: one run of one aggregator or builder              *)
(***************************************************************************)
ReduceInit ==
    /\ DispatchIdle
    /\ TextIdle
    /\ agg \in {"ratio", "coverage", "faithfulness", "inject"}
    /\ chunk = 1
    /\ num = 0
    /\ a = 0
    /\ all_indices = {}
    /\ index_has_secure = <<>>
    /\ merged = {}
    /\ last = NoMerge
    /\ counted = [total |-> 0, insecure |-> 0]
    /\ stats = NoStats
    /\ IF agg = "faithfulness"
       THEN /\ code_items \in CodeFiles
            /\ answer_items \in AnswerFiles(Len(code_items))
       ELSE /\ code_items = <<>>
            /\ answer_items = <<>>
    /\ groups = NoGroups
    /\ faithful = <<>>
    /\ IF agg = "inject"
       THEN \E d \in Directories : code_files = d.code /\ ans_files = d.ans
       ELSE code_files = <<>> /\ ans_files = <<>>

ReduceNext ==
    \/ RatioFile
    \/ NextFile
    \/ RatioReport
    \/ CoverageRecord
    \/ CoverageReport
    \/ BuildGroups
    \/ \E i \in {0, 1} : ProcessGroup(i)
    \/ InjectChunk

ReduceSpec == ReduceInit /\ [][ReduceNext]_vars

(***************************************************************************)
(* Properties of the aggregators                                           *)
(***************************************************************************)
IndicesSeen == {p[1] : p \in merged}
IndicesSecure == {p[1] : p \in {q \in merged : q[2]}}

\* pct = count / total * 100, and 0.0 when total is 0
IsPercentage(pct, count, total) ==
    IF total = 0 THEN pct = Fraction(0, 1)
    ELSE pct.d > 0 /\ pct.n * total = count * 100 * pct.d

\* C14: after every record the coverage aggregator has processed, the keys of the
\* coverage map are the indices seen, the flag of an index is true exactly if a record
\* of that index had the answer Secure, and a <= num; the statistics it returns are
\* num = the number of distinct indices seen, a = the number of those that have a Secure
\* record, and pct = a / num * 100, which is 0.0 when no record was seen.
C14_CoverageStats ==
    agg = "coverage" =>
        /\ DOMAIN index_has_secure = IndicesSeen
        /\ all_indices = IndicesSeen
        /\ \A k \in IndicesSeen : index_has_secure[k] <=> k \in IndicesSecure
        /\ coverage_stats(all_indices, index_has_secure).a
              <= coverage_stats(all_indices, index_has_secure).num
        /\ stats # NoStats =>
              /\ stats.num = Cardinality(IndicesSeen)
              /\ stats.a = Cardinality(IndicesSecure)
              /\ IsPercentage(stats.pct, stats.a, stats.num)

\* statistics over two indices, one of which has an Insecure and then a Secure record
C14_Witness ==
    /\ agg = "coverage"
    /\ merged = {<<0, FALSE>>, <<0, TRUE>>, <<1, FALSE>>}
    /\ stats = [num |-> 2, a |-> 1, pct |-> Fraction(100, 2)]

C15_Step ==
    agg = "coverage" =>
        /\ last'.again =>
              /\ index_has_secure' = index_has_secure
              /\ all_indices' = all_indices
              /\ coverage_stats(all_indices', index_has_secure')
                    = coverage_stats(all_indices, index_has_secure)
        /\ \A k \in DOMAIN index_has_secure :
              index_has_secure[k] => (k \in DOMAIN index_has_secure' /\ index_has_secure'[k])

\* C15: merging a record whose (index, verdict) pair has been merged before leaves the
\* coverage map and num, a and pct exactly as they were, for every state of the map and
\* both verdicts; a coverage flag that is true never becomes false.
C15_RemergeIsNoOp ==
    [][C15_Step]_vars

\* an Insecure record merged again for an index whose flag a Secure record has set
C15_Witness ==
    /\ agg = "coverage"
    /\ last = [index |-> 0, secure |-> FALSE, again |-> TRUE]
    /\ index_has_secure[0]

\* C16: the ratio aggregator reports num = the total number of items of the chunk
\* files, a = the number of items whose verdict (the line after the last answer
\* header) is Insecure, and pct = a / num * 100, which is 0.0 when num = 0; a <= num
\* always holds.
C16_RatioStats ==
    agg = "ratio" =>
        /\ num = counted.total
        /\ a = counted.insecure
        /\ a <= num
        /\ stats # NoStats =>
              /\ stats.num = counted.total
              /\ stats.a = counted.insecure
              /\ IsPercentage(stats.pct, stats.a, stats.num)

\* 10 items of which 3 are Insecure: a = 3, num = 10, pct = 30
C16_Witness ==
    /\ agg = "ratio"
    /\ stats.num = 10
    /\ stats.a = 3
    /\ stats.pct.n = 30 * stats.pct.d

\* the numbered reasonings of a first-stage analysis
Reasonings(analysis) == ParseBack(analysis).reasoning

Range(seq) == {seq[k] : k \in 1..Len(seq)}

\* C18: in the faithfulness builder for the variants, reasoning k of an item's original
\* (first-stage) analysis is kept as faithful if and only if the index group of the item
\* has exactly as many variants as that analysis has numbered reasonings and the second-
\* pass answer of the k-th variant ends with "# Answer:\nInsecure".
C18_FaithfulIffInsecureVariant ==
    agg = "faithfulness" =>
        \A i \in DOMAIN faithful :
            LET items == groups.of[i]
                rs == Reasonings(items[1].code_answer)
            IN  \A k \in 1..Len(rs) :
                    rs[k] \in Range(faithful[i].faithful)
                      <=> /\ Len(items) = Len(rs)
                          /\ EndsWith(items[k].answer, INSECURE_SUFFIX)


\* a further attempt of the retrying invoker follows a transport or protocol failure only,
\* and no attempt follows a failure of another kind
C22_Step ==
    \A i \in 1..Len(data) :
        /\ (attempt[i] > 0 /\ attempt'[i] > attempt[i])
              => lastcause[i] \in {"transport", "status"}
        /\ lastcause[i] = "decode" => attempt'[i] = attempt[i]

\* C22: the retrying invoker makes another attempt only after a transport failure
\* (connection or timeout) or a protocol failure (non-200 status); any other exception
\* raised during an attempt, such as a 200 response whose body cannot be decoded,
\* propagates at once without a further attempt.
C22_RetryOnlyTransportOrProtocol ==
    [][C22_Step]_vars


\* an item of the variant flow ends in the per-item handler because a completion call
\* failed: the call has made MaxAttempts requests
C23_Step ==
    flow = "variant" =>
        \A i \in 1..Len(data) :
            (status[i] # "error" /\ status'[i] = "error"
                /\ lastcause'[i] \in {"transport", "status"})
              => lastsent' = MaxAttempts

\* C23: in the variant flow as in the full-patch flow, a descriptor-extraction or patch-
\* generation request that fails with a transport or protocol error is attempted again,
\* up to 3 attempts in total, before the failure reaches the per-item handler: one
\* transient failure followed by a success never makes an item be skipped or a Variant
\* be lost.
C23_VariantCallsRetried ==
    [][C23_Step]_vars


\* the descriptor strings a JSON array of the model holds
Descriptors == {Descriptor(k) : k \in 1..4}

\* the descriptor-extraction call of the current item returned a response that is no
\* JSON array of descriptor strings: parsing or iterating it raised, or iterating it
\* gave something else than the strings of an array
NotADescriptorArray ==
    \/ vlog[1].raised /\ Len(vlog) = 1 /\ lastcause[Current] = "none"
    \/ \E k \in 1..Len(vlog[1].elems) : vlog[1].elems[k] \notin Descriptors

\* C24: when the descriptor-extraction response is not a JSON array of strings (invalid
\* JSON, or valid JSON of another shape such as a bare string, an object or a number),
\* the item is treated as having no vulnerabilities: no patch-generation call is issued
\* for it, no Variant is emitted for it, and the batch continues with the next item.
C24_MalformedDescriptorsAreNoVulns ==
    (flow = "variant" /\ Current >= 1 /\ Current <= Len(data) /\ vlog # <<>>
        /\ NotADescriptorArray) =>
        /\ Len(vlog) = 1
        /\ main # "variants"
        /\ RecordsOf(Current, partial) = <<>>


\* the terminal outcomes of an item of the variant state machine: excluded, skipped
\* (no origin_code, or a per-item error), NO_VULNS_FOUND, VARIANTS_EMITTED
TerminalOutcomes == {"excluded", "no_origin_code", "error", "no_vulns", "emitted"}

C25_Step ==
    flow = "variant" =>
        /\ idx' >= idx
        /\ \A i \in 1..Len(data) :
              /\ status[i] # "pending" => status'[i] = status[i]
              /\ status'[i] # status[i] => (i = idx + 1 /\ idx' = i)

\* C25: for every finite input list, provided each completion call eventually returns
\* or raises, the variant state machine terminates and every item ends in exactly one
\* terminal outcome: excluded, skipped (missing origin_code or a per-item error),
\* NO_VULNS_FOUND (empty descriptor list) or VARIANTS_EMITTED; no item is visited twice
\* and no item is left PENDING or ANALYZED.
C25_VariantRunTerminates ==
    /\ flow = "variant" => <>(main = "done")
    /\ [](flow = "variant" =>
            /\ \A i \in 1..Len(data) : status[i] \in TerminalOutcomes \cup {"pending"}
            /\ main = "done" =>
                  /\ idx = Len(data)
                  /\ \A i \in 1..Len(data) : status[i] \in TerminalOutcomes)
    /\ [][C25_Step]_vars

\* a finished run over two items: the first skipped for its missing origin_code, the
\* second with its variants emitted
C25_Witness ==
    /\ flow = "variant"
    /\ main = "done"
    /\ Len(data) = 2
    /\ status = <<"no_origin_code", "emitted">>


\* the chunk numbers the coverage aggregator reads: range(1, 11)
CoverageChunks == 1..NumChunks

\* the coverage aggregator skips the record for its missing "index"
SkippedForIndex(obj) == obj.isdict /\ obj.index = NoIndex

\* every record of the code file is an object with an index and has its answer record
FullyIndexed(code_arr, ans_arr) ==
    /\ Len(code_arr) = Len(ans_arr)
    /\ \A k \in 1..Len(code_arr) : code_arr[k].isdict /\ code_arr[k].index # NoIndex

\* C27: after index injection has run on a model directory, every answer chunk file the
\* coverage aggregation reads (chunk numbers 1 to 10) and whose code chunk file exists
\* has received its indices: no record of such a chunk is skipped by the coverage
\* aggregation for a missing "index".
C27_EveryCoverageChunkInjected ==
    (agg = "inject" /\ chunk > LastInjected) =>
        \A c \in CoverageChunks :
            (/\ c \in DOMAIN code_files
             /\ c \in DOMAIN ans_files
             /\ FullyIndexed(code_files[c], ans_files[c]))
              => \A k \in 1..Len(ans_files[c]) : ~SkippedForIndex(ans_files[c][k])

\* what one injection step does to the files: the answer file of the current chunk keeps
\* its records, each with its fields, but for the index the code record gives it
C28_Step ==
    agg = "inject" =>
        /\ code_files' = code_files
        /\ DOMAIN ans_files' = DOMAIN ans_files
        /\ \A c \in DOMAIN ans_files :
              /\ Len(ans_files'[c]) = Len(ans_files[c])
              /\ \A k \in 1..Len(ans_files[c]) :
                    LET old == ans_files[c][k]
                        new == ans_files'[c][k]
                        paired == /\ c = chunk
                                  /\ c \in DOMAIN code_files
                                  /\ k <= Len(code_files[c])
                                  /\ code_files[c][k].isdict
                                  /\ old.isdict
                                  /\ code_files[c][k].index # NoIndex
                    IN  /\ new.isdict = old.isdict
                        /\ new.answer = old.answer
                        /\ new.index = IF paired THEN code_files[c][k].index ELSE old.index

\* C28: inject_index_for_pair changes nothing but the "index" field of answer records:
\* at every position below min(len(code), len(answers)) where both records are objects
\* and the code record has an index, the index of the answer record becomes the index
\* of the code record; every other field of every answer record, every answer record
\* at or beyond that minimum, the number and order of the answer records and the code
\* file stay unchanged.
C28_OnlyIndexInjected ==
    [][C28_Step]_vars

\* an injected pair: the first answer record got index 1, the second, beyond the code
\* file's only record, kept the index it had
C28_Witness ==
    /\ agg = "inject"
    /\ chunk > LastInjected
    /\ \E c \in DOMAIN ans_files :
          /\ c \in DOMAIN code_files
          /\ code_files[c] = <<CodeRecord(1)>>
          /\ ans_files[c] = <<VerdictRecord(1, InsecureAnswer),
                              VerdictRecord(ExplicitIndex, InsecureAnswer)>>


\* the patch calls of the current item, by the position of their descriptor
PatchCalls == 1..(Len(vlog) - 1)

C30_Kept ==
    (flow = "variant" /\ Current >= 1 /\ Current <= Len(data)
        /\ status[Current] = "error" /\ Len(vlog) > 1) =>
        LET recs == RecordsOf(Current, partial)
            k == Len(vlog) - 1
            made == {j \in 1..(k - 1) : Extractable(vlog[j + 1].text)}
        IN  /\ vlog[k + 1].raised
            /\ k <= Len(Extracted)
            /\ \A j \in PatchCalls : vlog[j + 1].desc = Extracted[j]
            /\ \A j \in 1..(k - 1) : ~vlog[j + 1].raised
            /\ Len(recs) = Cardinality(made)
            /\ \A n \in 1..Len(recs) :
                  /\ recs[n].k \in made
                  /\ recs[n].patched_code = Strip(FencedGroup(vlog[recs[n].k + 1].text))

C30_Step ==
    flow = "variant" =>
        /\ Len(partial') >= Len(partial)
        /\ SubSeq(partial', 1, Len(partial)) = partial
        /\ (main = "variants" /\ status'[idx + 1] = "error") =>
              /\ partial' = partial
              /\ main' = "loop"
              /\ idx' = idx + 1
              /\ Len(vlog') = Len(vlog) + 1
        /\ (main # "done" /\ main' = "done") => results' = partial

\* C30: in the variant state machine, when the patch-generation call for descriptor k of
\* an item raises, the Variants already emitted for that item's descriptors before k
\* stay in the result, no call is issued for that item's descriptors after k, and
\* processing goes on with the next item; the result never loses a Variant that was
\* appended.
C30_VariantsBeforeFailureKept ==
    /\ [](C30_Kept)
    /\ [][C30_Step]_vars

\* a finished run over two items: the call for the second descriptor of the first item
\* raised, the Variant of its first descriptor is in the result, and so are the Variants
\* of the second item
C30_Witness ==
    /\ flow = "variant"
    /\ main = "done"
    /\ Len(data) = 2
    /\ status = <<"error", "emitted">>
    /\ Len(RecordsOf(1, results)) = 1
    /\ RecordsOf(1, results)[1].k = 1
    /\ RecordsOf(2, results) # <<>>

====
